---- MODULE Spec2Model ----
(***************************************************************************)
(* tcping: one invocation of main() in src/tcping.c, from the command line *)
(* to the exit status.  Every library or system call is one step; what the *)
(* environment answers (resolver, socket, fcntl, connect, select,          *)
(* getsockopt) is chosen at the step and recorded in env.                  *)
(*                                                                         *)
(* Command-line words are sequences of one-character strings, so that      *)
(* strtol and getopt are computed character by character.  The command     *)
(* lines drawn in Init put the options before the positional words, one    *)
(* option letter per word (the layout of the usage line); on those command *)
(* lines GNU and POSIX getopt agree.                                        *)
(*                                                                         *)
(* long is modelled at 32 bits (its minimum width, ILP32): TLC's integers  *)
(* are 32 bits wide.  Each signed overflow found below at LONG_MAX happens *)
(* the same way at 2^63-1 on an LP64 build.                                *)
(***************************************************************************)
EXTENDS Integers, Sequences, FiniteSets, TLC

\* ------------------------------------------------------------- bounds
MaxOpts == 2        \* options on a command line drawn in Init
MaxSec == 1         \* -t values 0..MaxSec
MaxUsecHalf == 2    \* -u values k * 500000, k in 1..MaxUsecHalf

\* ------------------------------------------------- program constants
LONG_MAX == 2147483647
LONG_MIN == -LONG_MAX - 1
USEC_PER_SEC == 1000000

\* --------------------------------------------------- C integer helpers
\* C99 division truncates toward zero; the remainder has the dividend's sign.
CDiv(a, b) == IF a >= 0 THEN a \div b ELSE -((-a) \div b)
CRem(a, b) == IF a >= 0 THEN a % b ELSE -((-a) % b)

\* a + b does not fit a long (signed overflow: undefined behaviour).
AddOverflows(a, b) ==
    \/ b > 0 /\ a > LONG_MAX - b
    \/ b < 0 /\ a < LONG_MIN - b

\* a + b as two's-complement hardware computes it (wrapping at 2^32).
WrapAdd(a, b) ==
    IF b > 0 /\ a > LONG_MAX - b THEN (a - LONG_MAX - 1) + (b - LONG_MAX - 1)
    ELSE IF b < 0 /\ a < LONG_MIN - b THEN (a + LONG_MAX + 1) + (b + LONG_MAX + 1)
    ELSE a + b

\* ------------------------------------------------------------ strtol
DigitChars == <<"0", "1", "2", "3", "4", "5", "6", "7", "8", "9">>
IsDigit(c) == \E i \in 1..10 : DigitChars[i] = c
DigitVal(c) == (CHOOSE i \in 1..10 : DigitChars[i] = c) - 1

\* acc * 10 + d, clamped at LONG_MAX (strtol's ERANGE result).
Accumulate(acc, d) ==
    IF acc > (LONG_MAX - d) \div 10 THEN LONG_MAX ELSE acc * 10 + d

\* Digits of s from position i on, accumulated into acc.  Returns the value
\* and the first unread position.  (The accumulator is bound by a set
\* constructor so that it is passed on as a value, not as an expression.)
RECURSIVE StrtolDigits(_, _, _)
StrtolDigits(s, i, acc) ==
    IF i > Len(s) \/ ~IsDigit(s[i]) THEN [val |-> acc, next |-> i]
    ELSE CHOOSE r \in {StrtolDigits(s, i + 1, v) : v \in {Accumulate(acc, DigitVal(s[i]))}} : TRUE

\* strtol(s, &cptr, 10): optional sign, then digits.  consumed = cptr - s;
\* with no digit at all the value is 0 and cptr = s (consumed = 0).
Strtol(s) ==
    LET signed == Len(s) >= 1 /\ s[1] \in {"-", "+"}
        start == IF signed THEN 2 ELSE 1
        r == StrtolDigits(s, start, 0)
    IN IF r.next = start THEN [val |-> 0, consumed |-> 0]
       ELSE [val |-> IF signed /\ s[1] = "-" THEN -r.val ELSE r.val,
             consumed |-> r.next - 1]

\* Decimal text of n >= 0, as the shell would hand it over.
RECURSIVE ToStr(_)
ToStr(n) == IF n < 10 THEN <<DigitChars[n + 1]>>
            ELSE ToStr(n \div 10) \o <<DigitChars[(n % 10) + 1]>>

\* htons(port): the int is converted to uint16_t (modulo 2^16).
Htons(p) == p % 65536

\* ------------------------------------------------------ command lines
Prog == <<"p">>
HostWord == <<"h">>
NonNumWord == <<"x">>
OptQ == <<"-", "q">>
OptT == <<"-", "t">>
OptU == <<"-", "u">>
OptZ == <<"-", "z">>

SecWords == {ToStr(n) : n \in 0..MaxSec} \cup {<<"-", "1">>, NonNumWord, ToStr(LONG_MAX)}
UsecWords == {ToStr(k * (USEC_PER_SEC \div 2)) : k \in 1..MaxUsecHalf}
                 \cup {ToStr(0), NonNumWord}
PortWords == {ToStr(80), NonNumWord, <<"8", "x">>}
\* A port word above 65535, tried with at most one option before the host.
WidePortWords == {ToStr(65536 + 80)}

\* One option as the words it takes on the command line.
OptionItems == {<<OptQ>>, <<OptZ>>, <<OptT>>, <<OptU>>}
                 \cup {<<OptT, w>> : w \in SecWords}
                 \cup {<<OptU, w>> : w \in UsecWords}

RECURSIVE Flatten(_)
Flatten(ss) == IF ss = <<>> THEN <<>> ELSE Head(ss) \o Flatten(Tail(ss))

OptionLists == UNION {[1..n -> OptionItems] : n \in 0..MaxOpts}
PositionalLists == {<<>>, <<HostWord>>} \cup {<<HostWord, w>> : w \in PortWords}

CommandLines ==
    {<<Prog>> \o Flatten(os) \o ps : os \in OptionLists, ps \in PositionalLists}
      \cup {<<Prog>> \o Flatten(os) \o <<HostWord, w>> :
               os \in UNION {[1..n -> OptionItems] : n \in 0..1}, w \in WidePortWords}

\* argv[i] (C index, 0-based); argv[argc] is the NULL terminator.
IsNull(av, i) == i >= Len(av)
Arg(av, i) == av[i + 1]

\* ------------------------------------------------------------- getopt
\* getopt(argc, argv, "qt:u:") at optind oi.  c is the option letter,
\* "?" for an unknown option or a missing argument, "end" for -1.
Getopt(av, oi) ==
    IF IsNull(av, oi) THEN [c |-> "end", optarg |-> <<>>, optind |-> oi]
    ELSE LET w == Arg(av, oi) IN
      IF Len(w) < 2 \/ w[1] # "-" THEN [c |-> "end", optarg |-> <<>>, optind |-> oi]
      ELSE IF w = <<"-", "-">> THEN [c |-> "end", optarg |-> <<>>, optind |-> oi + 1]
      ELSE IF w[2] = "q" THEN [c |-> "q", optarg |-> <<>>, optind |-> oi + 1]
      ELSE IF w[2] \in {"t", "u"} THEN
        IF Len(w) > 2 THEN [c |-> w[2], optarg |-> SubSeq(w, 3, Len(w)), optind |-> oi + 1]
        ELSE IF ~IsNull(av, oi + 1)
             THEN [c |-> w[2], optarg |-> Arg(av, oi + 1), optind |-> oi + 2]
             ELSE [c |-> "?", optarg |-> <<>>, optind |-> oi + 1]
      ELSE [c |-> "?", optarg |-> <<>>, optind |-> oi + 1]

\* ------------------------------------------------------------- state
VARIABLES
    argv,           \* the command line, argv[0] first
    pc,             \* where main() is
    optind,         \* getopt's cursor
    verbosity,      \* 1, or 0 after -q
    timeout_sec,    \* -t
    timeout_usec,   \* -u
    port,           \* int port
    sin_port,       \* addr.sin_port, as a host-order number
    sock,           \* "none", "open", "invalid" (socket() gave -1), "closed"
    nonblock,       \* O_NONBLOCK is set on the socket
    tv,             \* struct timeval timeout
    deadline,       \* select's timeout argument: "none" (no select yet), "null", "set"
    ret,            \* select's return value
    isset,          \* FD_ISSET(sockfd, &fdrset) || FD_ISSET(sockfd, &fdwset)
    error,          \* int error (SO_ERROR)
    status,         \* "running", "exited", "signalled"
    exit_code,      \* the exit status once status = "exited"
    sig,            \* the signal once status = "signalled"
    out,            \* lines written to stdout
    err,            \* lines written to stderr
    env,            \* what each call answered ("unset" before the call)
    calls,          \* how often each call was made
    run,            \* 1; 2 in the second invocation of SpecQ
    first           \* SpecQ: how the first invocation ended

vars == <<argv, pc, optind, verbosity, timeout_sec, timeout_usec, port, sin_port,
          sock, nonblock, tv, deadline, ret, isset, error, status, exit_code, sig,
          out, err, env, calls, run, first>>

optvars == <<verbosity, timeout_sec, timeout_usec>>
addrvars == <<port, sin_port>>
sockvars == <<sock, nonblock>>
waitvars == <<tv, deadline, ret, isset, error>>
runvars == <<argv, run, first>>

EnvUnset == [resolve |-> "unset", socket |-> "unset", fcntl |-> "unset",
             connect |-> "unset", ub |-> "unset", select |-> "unset",
             fdset |-> "unset", getsockopt |-> "unset"]
NoCalls == [resolve |-> 0, socket |-> 0, connect |-> 0, select |-> 0, getsockopt |-> 0]

\* Lines 40-52: the locals of main() before its first statement.
Locals ==
    /\ pc = "start"
    /\ optind = 1
    /\ verbosity = 1
    /\ timeout_sec = 0
    /\ timeout_usec = 0
    /\ port = 0
    /\ sin_port = 0
    /\ sock = "none"
    /\ nonblock = FALSE
    /\ tv = [sec |-> 0, usec |-> 0]
    /\ deadline = "none"
    /\ ret = 0
    /\ isset = FALSE
    /\ error = 0
    /\ status = "running"
    /\ exit_code = 0
    /\ sig = "none"
    /\ out = <<>>
    /\ err = <<>>
    /\ calls = NoCalls

Init ==
    /\ argv \in CommandLines
    /\ Locals
    /\ env = EnvUnset
    /\ run = 1
    /\ first = [status |-> "running", exit_code |-> 0, sig |-> "none"]

\* The answers the environment may give to `call`: any of S, except that a
\* call already answered (the first invocation of SpecQ) answers the same.
Answers(call, S) == IF env[call] \in S THEN {env[call]} ELSE S

\* ------------------------------------------------------ ways to leave
\* (mutant) log() that ignores the verbosity.
LoggedAlways(stream, line) == Append(stream, line)

\* log(verbosity, stream, ...): the line is written unless verbosity is 0.
Logged(stream, line) == IF verbosity # 0 THEN Append(stream, line) ELSE stream

\* exit(code) / return code from main, with stdout o and stderr e.
Finish(code, o, e) ==
    /\ pc' = "done"
    /\ status' = "exited"
    /\ exit_code' = code
    /\ sig' = sig
    /\ out' = o
    /\ err' = e

\* usage(): fprintf to stderr whatever the verbosity, then exit(-1).
Usage == Finish(-1, out, Append(err, "usage"))

\* The process is killed by a signal; it writes nothing and closes nothing.
Crash(signal) ==
    /\ pc' = "done"
    /\ status' = "signalled"
    /\ sig' = signal
    /\ UNCHANGED <<exit_code, out, err>>

Continue(next) ==
    /\ pc' = next
    /\ UNCHANGED <<status, exit_code, sig, out, err>>

Called(call) == calls' = [calls EXCEPT ![call] = @ + 1]
Answered(call, r) == env' = [env EXCEPT ![call] = r]

\* ------------------------------------------------- argument handling
\* if (argc < 3) usage(argv[0]);
CheckArgc ==
    /\ pc = "start"
    /\ IF Len(argv) < 3 THEN Usage ELSE Continue("getopt")
    /\ UNCHANGED <<optind, optvars, addrvars, sockvars, waitvars, env, calls, runvars>>

\* case 'q'
OptionQ ==
    /\ pc = "getopt"
    /\ Getopt(argv, optind).c = "q"
    /\ optind' = Getopt(argv, optind).optind
    /\ verbosity' = 0
    /\ Continue("getopt")
    /\ UNCHANGED <<timeout_sec, timeout_usec, addrvars, sockvars, waitvars, env, calls, runvars>>

\* case 't': timeout_sec = strtol(optarg, &cptr, 10); if (cptr == optarg) usage
OptionT ==
    /\ pc = "getopt"
    /\ Getopt(argv, optind).c = "t"
    /\ optind' = Getopt(argv, optind).optind
    /\ LET r == Strtol(Getopt(argv, optind).optarg) IN
         /\ timeout_sec' = r.val
         /\ IF r.consumed = 0 THEN Usage ELSE Continue("getopt")
    /\ UNCHANGED <<verbosity, timeout_usec, addrvars, sockvars, waitvars, env, calls, runvars>>

\* case 'u': timeout_usec = strtol(optarg, &cptr, 10); if (cptr == optarg) usage
OptionU ==
    /\ pc = "getopt"
    /\ Getopt(argv, optind).c = "u"
    /\ optind' = Getopt(argv, optind).optind
    /\ LET r == Strtol(Getopt(argv, optind).optarg) IN
         /\ timeout_usec' = r.val
         /\ IF r.consumed = 0 THEN Usage ELSE Continue("getopt")
    /\ UNCHANGED <<verbosity, timeout_sec, addrvars, sockvars, waitvars, env, calls, runvars>>

\* default: an unknown option, or -t/-u without its value. opterr is left
\* at 1, so getopt() has written its own diagnostic to stderr before usage()
\* adds the usage line; neither looks at the verbosity.
OptionUnknown ==
    /\ pc = "getopt"
    /\ Getopt(argv, optind).c = "?"
    /\ optind' = Getopt(argv, optind).optind
    /\ Finish(-1, out, err \o <<"getopt", "usage">>)
    /\ UNCHANGED <<optvars, addrvars, sockvars, waitvars, env, calls, runvars>>

\* getopt returns -1: the loop ends.
OptionsEnd ==
    /\ pc = "getopt"
    /\ Getopt(argv, optind).c = "end"
    /\ optind' = Getopt(argv, optind).optind
    /\ Continue("resolve")
    /\ UNCHANGED <<optvars, addrvars, sockvars, waitvars, env, calls, runvars>>

\* ---------------------------------------------------- name resolution
\* gethostbyname(argv[optind]) returns a host entry.
ResolveOk ==
    /\ pc = "resolve"
    /\ ~IsNull(argv, optind)
    /\ "ok" \in Answers("resolve", {"ok", "fail"})
    /\ Answered("resolve", "ok")
    /\ Called("resolve")
    /\ Continue("parse_port")
    /\ UNCHANGED <<optind, optvars, addrvars, sockvars, waitvars, runvars>>

\* (mutant) the resolver's failure is logged but exit(-1) is missing.
ResolveFailNoExit ==
    /\ pc = "resolve"
    /\ "fail" \in Answers("resolve", IF IsNull(argv, optind) THEN {"crash", "fail"}
                                                             ELSE {"ok", "fail"})
    /\ Answered("resolve", "fail")
    /\ Called("resolve")
    /\ pc' = "parse_port"
    /\ err' = Logged(err, "resolve")
    /\ UNCHANGED <<status, exit_code, sig, out>>
    /\ UNCHANGED <<optind, optvars, addrvars, sockvars, waitvars, runvars>>

\* gethostbyname returns NULL: log to stderr, exit(-1).  With argv[optind]
\* NULL (every word was an option) the call has undefined behaviour; a
\* library that checks its argument fails the lookup.
ResolveFail ==
    /\ pc = "resolve"
    /\ "fail" \in Answers("resolve", IF IsNull(argv, optind) THEN {"crash", "fail"}
                                                             ELSE {"ok", "fail"})
    /\ Answered("resolve", "fail")
    /\ Called("resolve")
    /\ Finish(-1, out, Logged(err, "resolve"))
    /\ UNCHANGED <<optind, optvars, addrvars, sockvars, waitvars, runvars>>

\* gethostbyname(NULL) dereferences the null pointer.
ResolveNull ==
    /\ pc = "resolve"
    /\ IsNull(argv, optind)
    /\ "crash" \in Answers("resolve", {"crash", "fail"})
    /\ Answered("resolve", "crash")
    /\ Called("resolve")
    /\ Crash("SIGSEGV")
    /\ UNCHANGED <<optind, optvars, addrvars, sockvars, waitvars, runvars>>

\* if (argv[optind + 1]) { port = strtol(...); if (cptr == argv[optind + 1])
\* usage } else usage;  addr.sin_port = htons(port);
ParsePort ==
    /\ pc = "parse_port"
    /\ IF IsNull(argv, optind + 1)
       THEN Usage /\ UNCHANGED addrvars
       ELSE LET r == Strtol(Arg(argv, optind + 1)) IN
              /\ port' = r.val
              /\ IF r.consumed = 0
                 THEN Usage /\ sin_port' = sin_port
                 ELSE Continue("socket") /\ sin_port' = Htons(r.val)
    /\ UNCHANGED <<optind, optvars, sockvars, waitvars, env, calls, runvars>>

\* ------------------------------------------------- socket and connect
\* sockfd = socket(AF_INET, SOCK_STREAM, 0); the result is not checked.
Socket ==
    /\ pc = "socket"
    /\ \E r \in Answers("socket", {"ok", "fail"}) :
         /\ Answered("socket", r)
         /\ sock' = IF r = "ok" THEN "open" ELSE "invalid"
    /\ Called("socket")
    /\ Continue("fcntl")
    /\ UNCHANGED <<optind, optvars, addrvars, nonblock, waitvars, runvars>>

\* fcntl(sockfd, F_SETFL, O_NONBLOCK); the result is not checked.  On
\* sockfd = -1 it fails with EBADF.
Fcntl ==
    /\ pc = "fcntl"
    /\ \E r \in Answers("fcntl", IF sock = "open" THEN {"ok", "fail"} ELSE {"fail"}) :
         /\ Answered("fcntl", r)
         /\ nonblock' = (r = "ok")
    /\ Continue("connect")
    /\ UNCHANGED <<optind, optvars, addrvars, sock, waitvars, calls, runvars>>

\* What connect(sockfd, ...) can answer: EBADF on sockfd = -1; EINPROGRESS
\* only on a non-blocking socket.
ConnectAnswers ==
    IF sock # "open" THEN {"error"}
    ELSE IF nonblock THEN {"ok", "inprogress", "error"}
    ELSE {"ok", "error"}

\* (mutant) connect returns 0 but the code goes on to the wait.
ConnectOkWaits ==
    /\ pc = "connect"
    /\ "ok" \in Answers("connect", ConnectAnswers)
    /\ Answered("connect", "ok")
    /\ Called("connect")
    /\ Continue("select")
    /\ UNCHANGED <<optind, optvars, addrvars, sockvars, waitvars, runvars>>

\* connect returns 0: close(sockfd), log the open line, return 0.
ConnectOk ==
    /\ pc = "connect"
    /\ "ok" \in Answers("connect", ConnectAnswers)
    /\ Answered("connect", "ok")
    /\ Called("connect")
    /\ sock' = "closed"
    /\ Finish(0, Logged(out, "open"), err)
    /\ UNCHANGED <<optind, optvars, addrvars, nonblock, waitvars, runvars>>

\* (mutant) errno is not tested: any connect failure is taken for a
\* connect in progress and the pending error is asked for.
ConnectErrorQueries ==
    /\ pc = "connect"
    /\ "error" \in Answers("connect", ConnectAnswers)
    /\ Answered("connect", "error")
    /\ Called("connect")
    /\ isset' = TRUE
    /\ Continue("fd_isset")
    /\ UNCHANGED <<optind, optvars, addrvars, sockvars, tv, deadline, ret, error, runvars>>

\* connect fails with errno != EINPROGRESS: log to stderr, return -1.
ConnectError ==
    /\ pc = "connect"
    /\ "error" \in Answers("connect", ConnectAnswers)
    /\ Answered("connect", "error")
    /\ Called("connect")
    /\ Finish(-1, out, Logged(err, "connect"))
    /\ UNCHANGED <<optind, optvars, addrvars, sockvars, waitvars, runvars>>

\* timeout.tv_sec = timeout_sec + timeout_usec / 1000000
TvSec == WrapAdd(timeout_sec, CDiv(timeout_usec, USEC_PER_SEC))
\* timeout.tv_usec = timeout_usec % 1000000
TvUsec == CRem(timeout_usec, USEC_PER_SEC)

\* One of the two additions of lines 113 and 117 overflows a long.
TimevalOverflows ==
    \/ AddOverflows(timeout_sec, CDiv(timeout_usec, USEC_PER_SEC))
    \/ AddOverflows(TvSec, TvUsec)

\* What a build makes of the overflow: the sum wraps, the comparison is
\* compiled as if the sum were exact (allowed: overflow is undefined), or
\* the addition traps (-ftrapv).  The stored tv_sec is a long either way.
OverflowAnswers ==
    IF ~TimevalOverflows THEN {"defined"}
    ELSE IF AddOverflows(timeout_sec, CDiv(timeout_usec, USEC_PER_SEC)) THEN {"wrap", "trap"}
    ELSE {"wrap", "exact", "trap"}

\* (mutant) >= 0 in place of > 0.
TimeoutArgGE(sec, usec, ub) ==
    IF ub = "exact" /\ AddOverflows(sec, usec)
    THEN (IF usec >= 0 THEN "set" ELSE "null")
    ELSE IF WrapAdd(sec, usec) >= 0 THEN "set" ELSE "null"

\* timeout.tv_sec + timeout.tv_usec > 0 ? &timeout : NULL
TimeoutArg(sec, usec, ub) ==
    IF ub = "exact" /\ AddOverflows(sec, usec)
    THEN (IF usec > 0 THEN "set" ELSE "null")
    ELSE IF WrapAdd(sec, usec) > 0 THEN "set" ELSE "null"

\* connect fails with EINPROGRESS: FD_ZERO/FD_SET, the timeval, and the
\* timeout argument of the select call that follows.
ConnectInProgress ==
    /\ pc = "connect"
    /\ "inprogress" \in Answers("connect", ConnectAnswers)
    /\ \E ub \in Answers("ub", OverflowAnswers) \ {"trap"} :
         /\ env' = [env EXCEPT !["connect"] = "inprogress", !["ub"] = ub]
         /\ deadline' = TimeoutArg(TvSec, TvUsec, ub)
    /\ Called("connect")
    /\ tv' = [sec |-> TvSec, usec |-> TvUsec]
    /\ isset' = TRUE
    /\ Continue("select")
    /\ UNCHANGED <<optind, optvars, addrvars, sockvars, ret, error, runvars>>

\* The same, in a build whose signed additions trap on overflow.
ConnectInProgressTrap ==
    /\ pc = "connect"
    /\ "inprogress" \in Answers("connect", ConnectAnswers)
    /\ "trap" \in Answers("ub", OverflowAnswers)
    /\ env' = [env EXCEPT !["connect"] = "inprogress", !["ub"] = "trap"]
    /\ Called("connect")
    /\ Crash("SIGABRT")
    /\ UNCHANGED <<optind, optvars, addrvars, sockvars, waitvars, runvars>>

\* ---------------------------------------------------------- the wait
\* select rejects a timeval with a negative field (EINVAL).
TimevalValid == tv.sec >= 0 /\ tv.usec >= 0

\* select returns > 0: the socket is readable, writable or both.
SelectReady ==
    /\ pc = "select"
    /\ deadline = "null" \/ TimevalValid
    /\ "ready" \in Answers("select", {"ready", "timeout", "error"})
    /\ env' = [env EXCEPT !["select"] = "ready", !["fdset"] = "set"]
    /\ Called("select")
    /\ ret' \in {1, 2}
    /\ isset' = TRUE
    /\ Continue("fd_isset")
    /\ UNCHANGED <<optind, optvars, addrvars, sockvars, tv, deadline, error, runvars>>

\* select returns 0, the deadline has passed: close, log, return 2.
SelectTimeout ==
    /\ pc = "select"
    /\ deadline = "set" /\ TimevalValid
    /\ "timeout" \in Answers("select", {"ready", "timeout", "error"})
    /\ env' = [env EXCEPT !["select"] = "timeout", !["fdset"] = "clear"]
    /\ Called("select")
    /\ ret' = 0
    /\ isset' = FALSE
    /\ sock' = "closed"
    /\ Finish(2, Logged(out, "timeout"), err)
    /\ UNCHANGED <<optind, optvars, addrvars, nonblock, tv, deadline, error, runvars>>

\* select returns -1 (EINVAL for a bad timeval, EINTR, ...).  The code only
\* tests ret == 0 and goes on to FD_ISSET; after an error the sets are
\* unmodified (POSIX) or undefined (Linux select(2)).
SelectError ==
    /\ pc = "select"
    /\ "error" \in Answers("select", {"ready", "timeout", "error"})
    /\ \E f \in Answers("fdset", {"set", "clear"}) :
         /\ env' = [env EXCEPT !["select"] = "error", !["fdset"] = f]
         /\ isset' = (f = "set")
    /\ Called("select")
    /\ ret' = -1
    /\ Continue("fd_isset")
    /\ UNCHANGED <<optind, optvars, addrvars, sockvars, tv, deadline, error, runvars>>

\* ------------------------------------------------- outcome resolution
\* (mutant) the else branch is missing: an unset socket falls through to
\* the open branch.
SocketNotSetFallsThrough ==
    /\ pc = "fd_isset"
    /\ ~isset
    /\ sock' = "closed"
    /\ Finish(0, Logged(out, "open"), err)
    /\ UNCHANGED <<optind, optvars, addrvars, nonblock, waitvars, env, calls, runvars>>

\* FD_ISSET is false for both sets: log to stderr, exit(-1).
SocketNotSet ==
    /\ pc = "fd_isset"
    /\ ~isset
    /\ Finish(-1, out, Logged(err, "notset"))
    /\ UNCHANGED <<optind, optvars, addrvars, sockvars, waitvars, env, calls, runvars>>

\* getsockopt(SO_ERROR) fails: log to stderr, close, return -1.
GetsockoptFail ==
    /\ pc = "fd_isset"
    /\ isset
    /\ "fail" \in Answers("getsockopt", {"fail", "zero", "nonzero"})
    /\ Answered("getsockopt", "fail")
    /\ Called("getsockopt")
    /\ sock' = "closed"
    /\ Finish(-1, out, Logged(err, "getsockopt"))
    /\ UNCHANGED <<optind, optvars, addrvars, nonblock, waitvars, runvars>>

\* The pending errors a failed connect leaves: ECONNREFUSED, ETIMEDOUT.
PendingErrors == {111, 110}

\* (mutant) close and return 1 sit inside the verbosity test of the log: a
\* quiet run falls through to the open exit.
GetsockoptClosedLoud ==
    /\ pc = "fd_isset"
    /\ isset
    /\ "nonzero" \in Answers("getsockopt", {"fail", "zero", "nonzero"})
    /\ Answered("getsockopt", "nonzero")
    /\ Called("getsockopt")
    /\ error' \in PendingErrors
    /\ sock' = "closed"
    /\ IF verbosity # 0 THEN Finish(1, Append(out, "closed"), err)
                        ELSE Finish(0, out, err)
    /\ UNCHANGED <<optind, optvars, addrvars, nonblock, tv, deadline, ret, isset, runvars>>

\* error != 0: log the closed line, close, return 1.
GetsockoptClosed ==
    /\ pc = "fd_isset"
    /\ isset
    /\ "nonzero" \in Answers("getsockopt", {"fail", "zero", "nonzero"})
    /\ Answered("getsockopt", "nonzero")
    /\ Called("getsockopt")
    /\ error' \in PendingErrors
    /\ sock' = "closed"
    /\ Finish(1, Logged(out, "closed"), err)
    /\ UNCHANGED <<optind, optvars, addrvars, nonblock, tv, deadline, ret, isset, runvars>>

\* (mutant) a pending error of 0 is reported as closed.
GetsockoptOpenAsClosed ==
    /\ pc = "fd_isset"
    /\ isset
    /\ "zero" \in Answers("getsockopt", {"fail", "zero", "nonzero"})
    /\ Answered("getsockopt", "zero")
    /\ Called("getsockopt")
    /\ error' = 0
    /\ sock' = "closed"
    /\ Finish(1, Logged(out, "closed"), err)
    /\ UNCHANGED <<optind, optvars, addrvars, nonblock, tv, deadline, ret, isset, runvars>>

\* error == 0: fall through to close, log the open line, return 0.
GetsockoptOpen ==
    /\ pc = "fd_isset"
    /\ isset
    /\ "zero" \in Answers("getsockopt", {"fail", "zero", "nonzero"})
    /\ Answered("getsockopt", "zero")
    /\ Called("getsockopt")
    /\ error' = 0
    /\ sock' = "closed"
    /\ Finish(0, Logged(out, "open"), err)
    /\ UNCHANGED <<optind, optvars, addrvars, nonblock, tv, deadline, ret, isset, runvars>>

\* ------------------------------------------------------ specification
Parse == CheckArgc \/ OptionQ \/ OptionT \/ OptionU \/ OptionUnknown \/ OptionsEnd
Resolve == ResolveOk \/ ResolveFail \/ ResolveNull
Connect == ConnectOk \/ ConnectError \/ ConnectInProgress \/ ConnectInProgressTrap
Select == SelectReady \/ SelectTimeout \/ SelectError
Getsockopt == SocketNotSet \/ GetsockoptFail \/ GetsockoptClosed \/ GetsockoptOpen

\* The steps main() takes by itself once the call it makes returns.
Step == Parse \/ Resolve \/ ParsePort \/ Socket \/ Fcntl \/ Connect \/ Getsockopt

Next == Step \/ Select

Spec == Init /\ [][Next]_vars

\* The wait returns once its deadline passes (or at once, with EINVAL, when
\* the timeval is invalid); a wait without deadline may block for ever, and
\* the network owes no readiness event.  main() itself always goes on.
FairSpec ==
    /\ Spec
    /\ WF_vars(Step)
    /\ WF_vars(SelectTimeout)
    /\ WF_vars(SelectError /\ deadline = "set" /\ ~TimevalValid)

\* ------------------------------------- a second invocation, with -q
HasQ(av) == \E i \in 1..Len(av) : av[i] = OptQ

\* The places (C indices) where getopt starts reading an option, and the
\* place where it stops.
RECURSIVE OptionStarts(_, _)
OptionStarts(av, oi) ==
    LET g == Getopt(av, oi) IN
    IF g.c \in {"end", "?"} THEN {oi} ELSE {oi} \cup OptionStarts(av, g.optind)

\* The shell runs the same command again with -q added as one more option,
\* in the same environment: calls answer what they answered the first time.
Rerun ==
    /\ pc = "done"
    /\ run = 1
    /\ ~HasQ(argv)
    /\ \E i \in OptionStarts(argv, 1) :
         argv' = SubSeq(argv, 1, i) \o <<OptQ>> \o SubSeq(argv, i + 1, Len(argv))
    /\ run' = 2
    /\ first' = [status |-> status, exit_code |-> exit_code, sig |-> sig]
    /\ pc' = "start"
    /\ optind' = 1
    /\ verbosity' = 1
    /\ timeout_sec' = 0
    /\ timeout_usec' = 0
    /\ port' = 0
    /\ sin_port' = 0
    /\ sock' = "none"
    /\ nonblock' = FALSE
    /\ tv' = [sec |-> 0, usec |-> 0]
    /\ deadline' = "none"
    /\ ret' = 0
    /\ isset' = FALSE
    /\ error' = 0
    /\ status' = "running"
    /\ exit_code' = 0
    /\ sig' = "none"
    /\ out' = <<>>
    /\ err' = <<>>
    /\ calls' = NoCalls
    /\ env' = env

SpecQ == Init /\ [][Next \/ Rerun]_vars

\* ================================================================ claims
Done == pc = "done"
Exited(code) == Done /\ status = "exited" /\ exit_code = code

\* The connection was established: connect returned 0, or a readiness event
\* was delivered and the pending error read back was 0.
Established ==
    \/ env.connect = "ok"
    \/ env.select = "ready" /\ env.getsockopt = "zero"

\* C1: every invocation that terminates ends with one exit code of
\* {0, 1, 2, -1}; 0 only when the connection was established, 1 only when
\* the pending error read back is non-zero, 2 only when the deadline passed
\* with no readiness event, and a failed wait ends with -1.
C1_ExitCodeMatchesOutcome ==
    Done =>
      /\ status = "exited"
      /\ exit_code \in {0, 1, 2, -1}
      /\ exit_code = 0 => Established
      /\ exit_code = 1 => env.getsockopt = "nonzero" /\ error # 0
      /\ exit_code = 2 => env.select = "timeout" /\ deadline = "set"
      /\ env.select = "error" => exit_code = -1

\* C2: no terminal state has the socket still open.
C2_SocketClosedOnExit == Done => sock # "open"

\* The options asked for a positive timeout from non-negative parts.
PositiveTimeout ==
    /\ timeout_sec >= 0
    /\ timeout_usec >= 0
    /\ timeout_sec > 0 \/ timeout_usec > 0

\* C3: with a positive combined timeout (both parts non-negative) the
\* invocation always reaches a terminal outcome; it never waits for ever.
C3_PositiveTimeoutTerminates == (pc = "resolve" /\ PositiveTimeout) ~> Done

ZeroTimeout == timeout_sec = 0 /\ timeout_usec = 0

\* C4 (as stated): with a combined timeout of zero, a probe that entered the
\* wait terminates only as open (0) or closed (1).
C4_ZeroTimeoutOnlyOpenOrClosed ==
    ZeroTimeout /\ Done /\ calls.select = 1 => status = "exited" /\ exit_code \in {0, 1}

\* C4 (amended): with a combined timeout of zero the wait is issued without
\* deadline and the exit code is never 2; a probe that entered the wait ends
\* as open (0), closed (1), or with -1 when the pending-error query fails or
\* the wait failed and left the socket unset.
C4_ZeroTimeoutNeverTimesOut ==
    ZeroTimeout =>
      /\ deadline \in {"none", "null"}
      /\ ~Exited(2)
      /\ Done /\ calls.select = 1 =>
           /\ status = "exited"
           /\ exit_code \in {0, 1, -1}
           /\ exit_code = -1 =>
                \/ env.getsockopt = "fail"
                \/ env.select = "error" /\ env.fdset = "clear"

C4_Witness == ZeroTimeout /\ Exited(1) /\ calls.select = 1 /\ deadline = "null"

\* A word that is a decimal number as a whole: optional sign, then digits only.
IsDecimal(w) == Len(w) > 0 /\ Strtol(w).consumed = Len(w)

\* What the option words of av amount to: where the positional words start,
\* and whether an option is unknown, lacks its value or has a non-numeric one.
RECURSIVE OptScan(_, _)
OptScan(av, oi) ==
    LET g == Getopt(av, oi) IN
    IF g.c = "end" THEN [optind |-> g.optind, bad |-> FALSE]
    ELSE IF g.c = "?" THEN [optind |-> g.optind, bad |-> TRUE]
    ELSE IF g.c \in {"t", "u"} /\ ~IsDecimal(g.optarg) THEN [optind |-> g.optind, bad |-> TRUE]
    ELSE OptScan(av, g.optind)

BadArguments(av) ==
    LET r == OptScan(av, 1) IN
    \/ r.bad
    \/ Len(av) - r.optind < 2
    \/ ~IsDecimal(Arg(av, r.optind + 1))

\* C5: a command line with fewer than two positional words, or with a
\* non-numeric port, -t or -u value, ends with the usage message and exit
\* code -1 before any name resolution, socket creation or connect.
C5_UsageBeforeProbe ==
    Done /\ BadArguments(argv) =>
      /\ Exited(-1)
      /\ err \in {<<"usage">>, <<"getopt", "usage">>}
      /\ calls.resolve = 0 /\ calls.socket = 0 /\ calls.connect = 0

C7_QuietWritesNothing == HasQ(argv) /\ Done => out = <<>> /\ err = <<>>

\* C7 (amended): with -q nothing is written to stdout, and nothing to stderr
\* except what an argument error writes (exit code -1, before any socket
\* exists): the usage message, preceded by getopt's own diagnostic when the
\* error is an unknown option or a missing option value.
C7_QuietWritesOnlyUsage ==
    HasQ(argv) /\ Done =>
      /\ out = <<>>
      /\ \/ err = <<>>
         \/ /\ err \in {<<"usage">>, <<"getopt", "usage">>}
            /\ Exited(-1)
            /\ calls.socket = 0

C7_Witness == HasQ(argv) /\ verbosity = 0 /\ Exited(1) /\ out = <<>> /\ err = <<>>

\* C8: when the resolver fails, the invocation ends at once with exit code
\* -1 (the resolver's error on stderr unless quiet); no socket is created
\* and no connect is issued.
C8_ResolutionFailure ==
    env.resolve = "fail" =>
      /\ Exited(-1)
      /\ out = <<>>
      /\ err = (IF verbosity # 0 THEN <<"resolve">> ELSE <<>>)
      /\ sock = "none"
      /\ calls.socket = 0 /\ calls.connect = 0 /\ calls.select = 0

C8_Witness == env.resolve = "fail" /\ ~IsNull(argv, optind) /\ Exited(-1) /\ sock = "none"

\* C9: for non-negative -t s and -u u the wait gets (s + u div 1000000)
\* seconds and (u mod 1000000) < 1000000 microseconds, and it gets no
\* deadline exactly when s and u are both zero.
C9_DeadlineNormalised ==
    pc = "select" /\ timeout_sec >= 0 /\ timeout_usec >= 0 =>
      /\ ~AddOverflows(timeout_sec, timeout_usec \div USEC_PER_SEC)
      /\ tv.sec = timeout_sec + timeout_usec \div USEC_PER_SEC
      /\ tv.usec = timeout_usec % USEC_PER_SEC
      /\ tv.usec < USEC_PER_SEC
      /\ deadline = "null" <=> ZeroTimeout

\* C9, the part the code does satisfy: when neither addition overflows a
\* long, the timeval is the normal form of the total and the wait has no
\* deadline exactly when the total is zero.
C9_NormalisedUnlessOverflow ==
    pc = "select" /\ timeout_sec >= 0 /\ timeout_usec >= 0 /\ ~TimevalOverflows =>
      /\ tv.sec = timeout_sec + timeout_usec \div USEC_PER_SEC
      /\ tv.usec = timeout_usec % USEC_PER_SEC
      /\ tv.usec < USEC_PER_SEC
      /\ deadline = "null" <=> ZeroTimeout
      /\ deadline = "set" => TimevalValid

\* C10: a failure of socket creation, of the wait itself or of the
\* pending-error query ends the probe with exit code -1.
C10_FailuresExitMinusOne ==
    Done /\ (env.socket = "fail" \/ env.select = "error" \/ env.getsockopt = "fail")
      => Exited(-1)

\* The lines an invocation wrote, on both streams together.
Written == Len(out) + Len(err)

\* The messages of the exit-code table that belong to exit code -1.
ErrorLines == {"usage", "resolve", "connect", "getsockopt", "notset"}

\* C11: an invocation without -q that has terminated wrote exactly one
\* line; open, closed and user timeout are on stdout (stderr empty), and an
\* exit with -1 has its error line on stderr (stdout empty).
C11_OneLineOnMatchingStream ==
    ~HasQ(argv) /\ Done =>
      /\ Written = 1
      /\ status = "exited"
      /\ exit_code = 0 => out = <<"open">>
      /\ exit_code = 1 => out = <<"closed">>
      /\ exit_code = 2 => out = <<"timeout">>
      /\ exit_code = -1 => err # <<>> /\ err[1] \in ErrorLines

\* C11, the part the code does satisfy: an invocation without -q that got
\* past getopt and ended by exit or return wrote exactly one line, on the
\* stream of its exit code.
C11_OneLineWhenExited ==
    ~HasQ(argv) /\ Done /\ status = "exited" /\ "getopt" \notin {err[i] : i \in DOMAIN err} =>
      /\ Written = 1
      /\ exit_code = 0 => out = <<"open">>
      /\ exit_code = 1 => out = <<"closed">>
      /\ exit_code = 2 => out = <<"timeout">>
      /\ exit_code = -1 => err # <<>> /\ err[1] \in ErrorLines

\* C12: once connect has failed with an error other than EINPROGRESS the
\* invocation has ended with exit code -1 (the connect error on stderr
\* unless quiet); the wait and the pending-error query were not entered
\* and connect was issued once.
C12_ConnectErrorEndsProbe ==
    calls.connect > 0 /\ env.connect = "error" =>
      /\ Exited(-1)
      /\ out = <<>>
      /\ err = (IF verbosity # 0 THEN <<"connect">> ELSE <<>>)
      /\ calls.connect = 1
      /\ calls.select = 0
      /\ calls.getsockopt = 0

C12_Witness ==
    /\ calls.connect = 1 /\ env.connect = "error"
    /\ env.socket = "ok" /\ nonblock
    /\ Exited(-1) /\ err = <<"connect">>

\* C13: once connect has returned 0 the invocation has ended as open with
\* exit code 0, whatever -t and -u asked for; the wait and the
\* pending-error query were not performed.
C13_ImmediateConnectIsOpen ==
    calls.connect > 0 /\ env.connect = "ok" =>
      /\ Exited(0)
      /\ out = (IF verbosity # 0 THEN <<"open">> ELSE <<>>)
      /\ err = <<>>
      /\ deadline = "none"
      /\ calls.select = 0
      /\ calls.getsockopt = 0

C13_Witness ==
    /\ calls.connect = 1 /\ env.connect = "ok"
    /\ PositiveTimeout
    /\ Exited(0) /\ out = <<"open">>

\* C14: when the wait reported the socket ready and the pending-error
\* query succeeded, the exit code is 1 exactly when the pending error read
\* back is non-zero and 0 exactly when it is zero.
C14_PendingErrorDecides ==
    /\ calls.select = 1 /\ env.select = "ready"
    /\ calls.getsockopt = 1 /\ env.getsockopt # "fail"
    =>
      /\ status = "exited"
      /\ exit_code \in {0, 1}
      /\ exit_code = 1 <=> error # 0
      /\ exit_code = 0 <=> error = 0
      /\ out = (IF verbosity = 0 THEN <<>> ELSE IF error # 0 THEN <<"closed">> ELSE <<"open">>)

C14_Witness ==
    /\ calls.select = 1 /\ env.select = "ready" /\ isset
    /\ calls.getsockopt = 1 /\ env.getsockopt = "nonzero"
    /\ error \in PendingErrors
    /\ Exited(1)

\* C15: connect is issued only on a socket that socket() created and that
\* fcntl() has switched to non-blocking mode; it is not reached when
\* either of the two failed.
C15_ConnectOnNonblockingSocket ==
    calls.connect > 0 =>
      /\ env.socket = "ok"
      /\ env.fcntl = "ok"
      /\ nonblock

\* C15, the part the code does satisfy: socket() and fcntl() have both been
\* called, in that order, before connect is.
C15_SocketFcntlConnectInOrder ==
    /\ env.fcntl # "unset" => calls.socket = 1
    /\ calls.connect > 0 => calls.socket = 1 /\ env.fcntl # "unset"

\* C16: when the wait returned without timing out and the socket is in
\* neither set, the invocation ends with exit code -1 (its error on stderr
\* unless quiet), not as open, closed or timed out, and without asking for
\* the pending error.
C16_SocketNotSetIsError ==
    Done /\ calls.select = 1 /\ ret # 0 /\ ~isset =>
      /\ Exited(-1)
      /\ out = <<>>
      /\ err = (IF verbosity # 0 THEN <<"notset">> ELSE <<>>)
      /\ calls.getsockopt = 0

C16_Witness ==
    /\ calls.select = 1 /\ ret # 0 /\ ~isset
    /\ env.select # "timeout"
    /\ Exited(-1) /\ err = <<"notset">>

\* C17: name resolution, connect, the wait and the pending-error query are
\* each performed at most once; an invocation that has ended has produced
\* exactly one outcome (an exit code); and from a terminal state no
\* further step is possible.
C17_EachStepOnceOneOutcome ==
    /\ \A c \in DOMAIN calls : calls[c] <= 1
    /\ Done => status = "exited" /\ exit_code \in {0, 1, 2, -1}
    /\ Done => ~ENABLED Next

\* C17, the part the code does satisfy: no call is repeated, at most one
\* outcome is produced, and a terminal state is final.
C17_NoRetryAndFinal ==
    /\ \A c \in DOMAIN calls : calls[c] <= 1
    /\ status = "running" <=> ~Done
    /\ Done => ~ENABLED Next

\* C18: whenever connect is issued, the port it targets is in 1..65535 and is
\* the number the port word stands for.
C18_ConnectTargetsArgumentPort ==
    calls.connect > 0 =>
      /\ sin_port \in 1..65535
      /\ sin_port = Strtol(Arg(argv, optind + 1)).val

\* C19: open (exit code 0, the open line) is reported only when connect
\* returned 0, or the wait delivered a readiness event and the pending
\* error then read back was 0; never after the wait failed.
C19_OpenOnlyIfEstablished ==
    Exited(0) \/ "open" \in {out[i] : i \in DOMAIN out} =>
      \/ env.connect = "ok"
      \/ /\ env.connect = "inprogress"
         /\ env.select = "ready"
         /\ env.getsockopt = "zero" /\ error = 0

====
